---- MODULE Spec2Model ----
(***************************************************************************)
(* Push-mode attestation records of the keylime verifier                   *)
(* (keylime/models/verifier/push_attestation.py): the per-agent history of *)
(* PushAttestation rows, the operations create / receive_evidence /        *)
(* verify_evidence / cleanup_stale_priors, and the algorithm negotiation.  *)
(* Pull-mode polling of an agent by the verifier                           *)
(* (keylime/cloud_verifier_tornado.py): process_agent, its retries and the *)
(* timers and requests of the event loop.                                  *)
(***************************************************************************)
EXTENDS Integers, Sequences, FiniteSets, TLC

VARIABLES
    attestations,   \* the "attestations" table: a set of rows
    agents,         \* the verifier's agent rows, by agent id
    now,            \* Timestamp.now(), in seconds
    ops,            \* requests in flight: PushAttestation objects held in memory
    resp,           \* what the step just taken answered, if it answered
    pull            \* pull mode: the polled agent, its stored state, the event loop

vars == <<attestations, agents, now, ops, resp, pull>>

----------------------------------------------------------------------------
\* Bounds of the model

\* Highest attestation index a create may take.
MaxIndex == 1
\* Longest list of accepted algorithms an agent row is given.
MaxLen == 2
\* Last second the clock reaches (two days).
MaxTime == 172800
\* An agent is added only while fewer notifications than this were sent
MaxNotified == 1
\* An agent is added only while fewer timers than this were set
MaxTimers == 2
\* Last second a clock that moves by seconds reaches.
MaxClock == 3

----------------------------------------------------------------------------
\* Values

\* Python's None in an integer or timestamp field.
NULL == -1
\* Python's None (or a missing key) in a string field.
NONE == "none"

\* timedelta(n) with one positional argument counts days.
SecondsPerDay == 86400

\* config.getint("verifier", ...)
nonce_lifetime == 1
quote_interval == 1
verification_timeout == 1

AgentIds == {"a1", "a2"}

BootTimes == {1000, 2000}

Max(S) == CHOOSE x \in S : \A y \in S : y <= x

----------------------------------------------------------------------------
\* Strings that the code searches: a string is a sequence of tokens, "\n" is
\* the token NL, and a line of an IMA log is one token ("b" holds the text
\* boot_aggregate, "e" does not).

NL == "NL"

\* str.split("\n")[0]
FirstLine(s) ==
    IF \E i \in 1..Len(s) : s[i] = NL
    THEN SubSeq(s, 1, (CHOOSE i \in 1..Len(s) :
                          s[i] = NL /\ \A j \in 1..(i-1) : s[j] # NL) - 1)
    ELSE s

\* str.count("\n")
CountNL(s) == Cardinality({i \in 1..Len(s) : s[i] = NL})

\* "boot_aggregate" in line
HasBootAggregate(line) == \E i \in 1..Len(line) : line[i] = "b"

\* number of measurement lines the log holds
NumEntries(s) == Cardinality({i \in 1..Len(s) : s[i] # NL})

----------------------------------------------------------------------------
\* Rows of the "attestations" table (PushAttestation._schema)

Statuses == {"waiting", "received", "verified", "failed"}

\* OneOf("quote_authentication", "policy_violation") of the failure_type field
FailureTypeField == {"quote_authentication", "policy_violation"}

\* PushAttestation.empty(): an object with no value set and no error
EmptyAttestation ==
    [agent_id |-> NONE, index |-> NULL, status |-> NONE, failure_type |-> NONE,
     boottime |-> NULL, nonce |-> NONE, nonce_created_at |-> NULL,
     nonce_expires_at |-> NULL, hash_alg |-> NONE, enc_alg |-> NONE,
     sign_alg |-> NONE, starting_ima_offset |-> NULL, tpm_quote |-> NONE,
     ima_entries |-> <<>>, mb_entries |-> NONE,
     quoted_ima_entries_count |-> NULL, evidence_received_at |-> NULL]

\* The rows of one agent
Of(a) == {r \in attestations : r.agent_id = a}

\* A get that forgets the agent_id filter: the last row of the whole table
GetLastOfAll(a) ==
    IF attestations = {} THEN {}
    ELSE {CHOOSE r \in attestations : \A t \in attestations : t.index <= r.index}

\* PushAttestation.get(agent_id=a, _sort=desc("index")): the row of the agent
\* with the highest index, as a set of at most one row
GetLast(a) ==
    IF Of(a) = {} THEN {}
    ELSE {CHOOSE r \in Of(a) : \A s \in Of(a) : s.index <= r.index}

\* PushAttestation.get(agent_id, index): the row the controller loads
GetByIndex(a, i) == {r \in Of(a) : r.index = i}

\* The primary key (agent_id, index) of the table: an insert of a key already
\* present is refused.
PrimaryKeyFree(att) ==
    ~ \E r \in attestations : r.agent_id = att.agent_id /\ r.index = att.index

\* row.delete(): removes the row with that primary key
Delete(rows, r) ==
    {x \in rows : ~ (x.agent_id = r.agent_id /\ x.index = r.index)}

RowExists(rows, att) ==
    \E x \in rows : x.agent_id = att.agent_id /\ x.index = att.index

\* super().commit_changes() of a loaded object: overwrites the row of the same
\* key; nothing is written when the row is gone.
Update(rows, att) ==
    IF RowExists(rows, att) THEN Delete(rows, att) \cup {att}
    ELSE rows

\* previous_attestation of a fresh object: the query has no index filter, so it
\* is the agent's last row whatever its index.
PreviousAttestation(a) == GetLast(a)

\* previous_successful_attestation of a fresh object: the query has no index
\* filter, so it is the agent's verified row with the highest index.
PreviousSuccessful(a) ==
    LET cand == {r \in Of(a) : r.status = "verified"}
    IN  IF cand = {} THEN {}
        ELSE {CHOOSE r \in cand : \A s \in cand : s.index <= r.index}

\* previous_authenticated_attestation: the highest row below index i that is
\* verified or failed and whose failure_type is not quote_authentication
PreviousAuthenticated(a, i) ==
    LET cand == {r \in Of(a) : /\ r.status \in {"verified", "failed"}
                               /\ r.failure_type # "quote_authentication"
                               /\ r.index < i}
    IN  IF cand = {} THEN {}
        ELSE {CHOOSE r \in cand : \A s \in cand : s.index <= r.index}

\* next_ima_offset
NextImaOffset(r) ==
    IF r.starting_ima_offset # NULL /\ r.quoted_ima_entries_count # NULL
    THEN r.starting_ima_offset + r.quoted_ima_entries_count
    ELSE NULL

\* next_attestation_expected_after
NextAttestationExpectedAfter(r) ==
    (IF r.evidence_received_at # NULL THEN r.evidence_received_at
     ELSE r.nonce_created_at) + quote_interval

\* decision_expected_by
DecisionExpectedBy(r) ==
    (IF r.evidence_received_at # NULL THEN r.evidence_received_at
     ELSE r.nonce_created_at + quote_interval) + verification_timeout

\* received_ima_entries_count
ReceivedImaEntriesCount(r) ==
    IF r.ima_entries = <<>> THEN 0 ELSE CountNL(r.ima_entries)

----------------------------------------------------------------------------
\* Model objects in memory: the values of a PushAttestation (att) and the
\* names of its fields that carry a validation error (errors).

TheOne(S) == CHOOSE x \in S : TRUE

InSeq(x, seq) == \E i \in 1..Len(seq) : seq[i] = x

NewObject == [att |-> EmptyAttestation, errors |-> {}]

\* self._add_error(field, msg)
AddError(obj, field) == [obj EXCEPT !.errors = @ \cup {field}]

\* self.<field> = value of the base model: the value is recorded as a change
\* and the errors recorded earlier for that field are dropped.
Change(obj, field, value) ==
    [att |-> [obj.att EXCEPT ![field] = value], errors |-> obj.errors \ {field}]

\* changes_valid
ChangesValid(obj) == obj.errors = {}

\* _set_index, on an object that was never committed
SetIndex(obj) ==
    LET last == GetLast(obj.att.agent_id)
    IN  Change(obj, "index", IF last # {} THEN TheOne(last).index + 1 ELSE 0)

\* _set_status, given whether the pending changes hold a tpm_quote
SetStatus(obj, quoteChanged) ==
    LET o1 == IF obj.att.status = NONE THEN Change(obj, "status", "waiting")
              ELSE obj
    IN  IF quoteChanged THEN Change(o1, "status", "received") ELSE o1

\* _set_timestamps, given whether the pending changes hold a nonce and a
\* tpm_quote; timedelta(nonce_lifetime) is a number of days
SetTimestamps(obj, nonceChanged, quoteChanged) ==
    LET o1 == IF nonceChanged
              THEN Change(Change(obj, "nonce_created_at", now),
                          "nonce_expires_at",
                          now + nonce_lifetime * SecondsPerDay)
              ELSE obj
    IN  IF quoteChanged THEN Change(o1, "evidence_received_at", now) ELSE o1

\* initialise(agent_id)
Initialise(obj, a) ==
    SetStatus(SetTimestamps(SetIndex(Change(obj, "agent_id", a)), FALSE, FALSE),
              FALSE)

\* _set_nonce
SetNonce(obj) ==
    IF obj.att.nonce = NONE THEN Change(obj, "nonce", "nonce") ELSE obj

\* _set_ima_offset that starts every attestation of the same boot at 0
SetImaOffsetRestart(obj) ==
    LET prev == PreviousAuthenticated(obj.att.agent_id, obj.att.index)
    IN  IF obj.att.boottime = NULL THEN obj
        ELSE IF prev = {} \/ obj.att.boottime >= TheOne(prev).boottime
             THEN Change(obj, "starting_ima_offset", 0)
        ELSE AddError(obj, "boottime")

\* _set_ima_offset that takes an earlier boottime for a reboot
SetImaOffsetAnyBoot(obj) ==
    LET prev == PreviousAuthenticated(obj.att.agent_id, obj.att.index)
    IN  IF obj.att.boottime = NULL THEN obj
        ELSE IF prev = {} \/ obj.att.boottime # TheOne(prev).boottime
             THEN Change(obj, "starting_ima_offset", 0)
        ELSE Change(obj, "starting_ima_offset", NextImaOffset(TheOne(prev)))

\* _set_ima_offset
SetImaOffset(obj) ==
    LET prev == PreviousAuthenticated(obj.att.agent_id, obj.att.index)
    IN  IF obj.att.boottime = NULL THEN obj
        ELSE IF prev = {} THEN Change(obj, "starting_ima_offset", 0)
        ELSE IF obj.att.boottime > TheOne(prev).boottime
             THEN Change(obj, "starting_ima_offset", 0)
        ELSE IF obj.att.boottime = TheOne(prev).boottime
             THEN Change(obj, "starting_ima_offset", NextImaOffset(TheOne(prev)))
        ELSE AddError(obj, "boottime")

\* The previous_attestation that _set_ima_offset looks up (and prints) before
\* the commit: it is cached on the object only when a row was found.
CachedPrevious(obj) ==
    IF obj.att.boottime = NULL THEN {} ELSE PreviousAttestation(obj.att.agent_id)

\* A loop of _set_algs without its break: the last supported algorithm wins
RECURSIVE AlgLoopLast(_, _, _, _, _)
AlgLoopLast(obj, field, accept, supported, i) ==
    IF i > Len(accept) THEN obj
    ELSE IF InSeq(accept[i], supported)
         THEN AlgLoopLast(Change(obj, field, accept[i]), field, accept, supported, i + 1)
    ELSE AlgLoopLast(obj, field, accept, supported, i + 1)

\* One of the three loops of _set_algs: every accepted algorithm that the
\* agent's TPM does not support adds an error, the first supported one is
\* assigned and ends the loop.
RECURSIVE AlgLoop(_, _, _, _, _)
AlgLoop(obj, field, accept, supported, i) ==
    IF i > Len(accept) THEN obj
    ELSE IF InSeq(accept[i], supported) THEN Change(obj, field, accept[i])
    ELSE AlgLoop(AddError(obj, field), field, accept, supported, i + 1)

\* _set_algs(data, agent)
SetAlgs(obj, caps, agent) ==
    LET o1 == AlgLoop(obj, "hash_alg", agent.accept_tpm_hash_algs,
                      caps.supported_hash_algs, 1)
        o2 == AlgLoop(o1, "enc_alg", agent.accept_tpm_encryption_algs,
                      caps.supported_enc_algs, 1)
    IN  AlgLoop(o2, "sign_alg", agent.accept_tpm_signing_algs,
                caps.supported_sign_algs, 1)

\* receive_capabilities(data, agent): boottime is required
ReceiveCapabilities(obj, caps, agent) ==
    LET o1 == IF caps.boottime = NULL THEN AddError(obj, "boottime")
              ELSE Change(obj, "boottime", caps.boottime)
        o2 == SetAlgs(SetImaOffset(SetNonce(o1)), caps, agent)
    IN  SetStatus(SetTimestamps(o2, TRUE, FALSE), FALSE)

\* PushAttestation.create(agent_id, agent, data): for an agent without a
\* stored attestation it goes through create_from_agent, which takes the
\* offset the agent row holds, if any.
CreateObject(a, caps) ==
    LET o1 == ReceiveCapabilities(Initialise(NewObject, a), caps, agents[a])
    IN  IF GetLast(a) = {} /\ agents[a].next_ima_ml_entry \notin {NULL, 0}
        THEN Change(o1, "starting_ima_offset", agents[a].next_ima_ml_entry)
        ELSE o1

----------------------------------------------------------------------------
\* Evidence and verification

\* Failure event ids, as token sequences so that a prefix can be tested
EvQuoteValidation == <<"quote_validation", ".", "quote_validation">>
EvInvalidPcr == <<"measured_boot", ".", "invalid_pcr_", "0">>
EvImaPcrMismatch == <<"ima", ".", "pcr_mismatch">>
EvImaHashMismatch == <<"ima", ".", "hash_mismatch">>

\* str.startswith
StartsWith(s, prefix) ==
    Len(s) >= Len(prefix) /\ SubSeq(s, 1, Len(prefix)) = prefix

\* An assignment to a OneOf field: a value the field does not permit is not
\* recorded and leaves an error on the field.
CastChange(obj, field, value, permitted) ==
    IF value \in permitted THEN Change(obj, field, value)
    ELSE AddError([obj EXCEPT !.errors = @ \ {field}], field)

\* The loop of _set_failure_type over failure.events: the first event that is
\* a quote validation, an invalid measured-boot PCR or an IMA PCR mismatch
\* decides; NONE when no event is one of these.
RECURSIVE FailureTypeOfEvents(_, _)
FailureTypeOfEvents(events, i) ==
    IF i > Len(events) THEN NONE
    ELSE IF events[i] = EvQuoteValidation THEN "quote_authentication"
    ELSE IF StartsWith(events[i], <<"measured_boot", ".", "invalid_pcr_">>)
         THEN "log_authentication"
    ELSE IF events[i] = EvImaPcrMismatch THEN "log_authentication"
    ELSE FailureTypeOfEvents(events, i + 1)

\* _set_failure_type(failure)
SetFailureType(obj, events) ==
    IF events = <<>> THEN obj
    ELSE LET ft == FailureTypeOfEvents(events, 1)
         IN  CastChange(obj, "failure_type",
                        IF ft # NONE THEN ft ELSE "policy_violation",
                        FailureTypeField)

\* _validate_ima_entries without the test of the echoed offset
ValidateImaEntriesNoEcho(obj, echo, runtime_policy) ==
    LET ima == obj.att.ima_entries
        o1 == IF runtime_policy /\ ima = <<>>
              THEN AddError(obj, "ima_entries") ELSE obj
        o2 == IF ima # <<>> /\ ~ runtime_policy
              THEN AddError(o1, "ima_entries") ELSE o1
    IN  IF echo = 0 /\ ~ HasBootAggregate(FirstLine(ima))
        THEN AddError(o2, "ima_entries") ELSE o2

\* _validate_ima_entries(starting_ima_offset_received, runtime_policy)
ValidateImaEntries(obj, echo, runtime_policy) ==
    LET ima == obj.att.ima_entries
        o1 == IF runtime_policy /\ ima = <<>>
              THEN AddError(obj, "ima_entries") ELSE obj
        o2 == IF ima # <<>> /\ ~ runtime_policy
              THEN AddError(o1, "ima_entries") ELSE o1
        o3 == IF echo # obj.att.starting_ima_offset
              THEN AddError(o2, "starting_ima_offset") ELSE o2
    IN  IF echo = 0 /\ ~ HasBootAggregate(FirstLine(ima))
        THEN AddError(o3, "ima_entries") ELSE o3

\* validate_required(fields): a field without a value gets an error
RECURSIVE ValidateRequired(_, _)
ValidateRequired(obj, fields) ==
    IF fields = <<>> THEN obj
    ELSE ValidateRequired(
            IF obj.att[Head(fields)] = NONE THEN AddError(obj, Head(fields))
            ELSE obj,
            Tail(fields))

\* cast_changes(data, ["tpm_quote", "ima_entries", "mb_entries"]): only the
\* keys present in the request are changed
CastEvidence(obj, ev) ==
    LET o1 == IF ev.tpm_quote # NONE
              THEN Change(obj, "tpm_quote", ev.tpm_quote) ELSE obj
        o2 == IF ev.ima_entries # <<>>
              THEN Change(o1, "ima_entries", ev.ima_entries) ELSE o1
    IN  IF ev.mb_entries # NONE
        THEN Change(o2, "mb_entries", ev.mb_entries) ELSE o2

\* receive_evidence(data, runtime_policy) after its guard
ReceiveEvidenceObject(rec, ev, runtime_policy) ==
    LET o1 == CastEvidence([att |-> rec, errors |-> {}], ev)
        o2 == ValidateRequired(o1, <<"tpm_quote", "hash_alg", "enc_alg", "sign_alg">>)
        o3 == ValidateImaEntries(o2, ev.starting_ima_offset, runtime_policy)
    IN  SetStatus(SetTimestamps(o3, FALSE, ev.tpm_quote # NONE),
                  ev.tpm_quote # NONE)

\* What the TPM adapter and the policy engine can report for a record: the
\* failure events, the number of IMA entries the replay consumed (none when
\* the quote is not authenticated) and the keyrings learned.  A record
\* without a quote is never authenticated.
CheckQuoteOutcomes(rec, failures, consumed, keyrings) ==
    {[events |-> e, consumed |-> n, keyrings |-> k] :
        e \in {f \in failures : ~ InSeq(EvQuoteValidation, f) /\ rec.tpm_quote # NONE},
        n \in consumed \cap (0..NumEntries(rec.ima_entries)),
        k \in keyrings}
    \cup
    {[events |-> e, consumed |-> 0, keyrings |-> k] :
        e \in {f \in failures : InSeq(EvQuoteValidation, f)}, k \in keyrings}

\* The in-memory part of verify_evidence after check_quote returned
VerifyObject(rec, outcome) ==
    LET o0 == [att |-> rec, errors |-> {}]
        next_ima_ml_entry == rec.starting_ima_offset + outcome.consumed
        o1 == Change(o0, "quoted_ima_entries_count",
                     next_ima_ml_entry - rec.starting_ima_offset)
        o2 == Change(o1, "status",
                     IF outcome.events = <<>> THEN "verified" ELSE "failed")
    IN  SetFailureType(o2, outcome.events)

----------------------------------------------------------------------------
\* The scheduler's query

\* A duration, in seconds
Wait(n) == [kind |-> "wait", seconds |-> n]

\* Timestamps are datetime values (a timedelta is added to them, and their
\* difference is returned as the wait): the sum of two of them is not
\* defined and raises TypeError.
TimestampPlusTimestamp(t1, t2) == [kind |-> "TypeError"]

\* accept_new_attestations_in(agent_id)
AcceptNewAttestationsIn(a) ==
    LET last == GetLast(a)
    IN  IF last = {} THEN Wait(0)
        ELSE IF now < NextAttestationExpectedAfter(TheOne(last))
             THEN Wait(NextAttestationExpectedAfter(TheOne(last)) - now)
        ELSE IF /\ TheOne(last).status = "received"
                /\ now <= DecisionExpectedBy(TheOne(last))
             THEN TimestampPlusTimestamp(DecisionExpectedBy(TheOne(last)), now)
        ELSE Wait(0)

----------------------------------------------------------------------------
\* Requests

Requests == {1, 2, 3}

Idle == [kind |-> "idle"]

\* The answer of a request handler, with the request it answers
Answer(op, a, i, code, errors, req) ==
    [op |-> op, agent_id |-> a, index |-> i, code |-> code, errors |-> errors,
     req |-> req]

NoRequest == [kind |-> "none"]

NoAnswer == Answer("none", NONE, NULL, "none", {}, NoRequest)

\* Capability declarations an agent may post
CapsInputs(boottimes, hashes, signs) ==
    [boottime : boottimes, supported_hash_algs : hashes,
     supported_enc_algs : {<<"rsa">>}, supported_sign_algs : signs]

\* Evidence an agent may submit for a row: a body and the echoed offset, NULL
\* in echoes standing for the offset the row holds
EvidenceInputs(rec, bodies, echoes) ==
    {[tpm_quote |-> b.tpm_quote, ima_entries |-> b.ima_entries,
      mb_entries |-> b.mb_entries, starting_ima_offset |-> e] :
        b \in bodies,
        e \in {IF x = NULL THEN rec.starting_ima_offset ELSE x : x \in echoes}}

Body(quote, ima, mb) == [tpm_quote |-> quote, ima_entries |-> ima, mb_entries |-> mb]

\* The request of a create in flight: the object, the previous attestation it
\* cached, the capabilities posted and whether the insert was already retried
CreateOp(a, caps, retried) ==
    LET obj == CreateObject(a, caps)
    IN  [kind |-> "create", agent_id |-> a, att |-> obj.att,
         prev |-> CachedPrevious(obj), caps |-> caps,
         retried |-> retried, pc |-> "commit"]

\* POST attestations: PushAttestation.create; a declaration with validation
\* errors is answered at once and nothing is held.
CreateBegin(q, a, caps) ==
    LET obj == CreateObject(a, caps)
    IN  /\ ops[q] = Idle
        /\ obj.att.index <= MaxIndex
        /\ IF ChangesValid(obj)
           THEN /\ ops' = [ops EXCEPT ![q] = CreateOp(a, caps, FALSE)]
                /\ resp' = NoAnswer
           ELSE /\ resp' = Answer("create", a, obj.att.index, "invalid", obj.errors,
                                  caps)
                /\ UNCHANGED ops
        /\ UNCHANGED <<attestations, agents, now, pull>>

\* The guard of commit_changes for a waiting object
CommitGuard(att) ==
    LET last == GetLast(att.agent_id)
    IN  ~ (last # {} /\ TheOne(last).index >= att.index)

\* A controller that starts a create over after every conflict
CreateConflictAgain(q) ==
    LET op == ops[q]
        obj == CreateObject(op.agent_id, op.caps)
    IN  IF ChangesValid(obj)
        THEN /\ ops' = [ops EXCEPT ![q] = CreateOp(op.agent_id, op.caps, TRUE)]
             /\ resp' = NoAnswer
        ELSE /\ ops' = [ops EXCEPT ![q] = Idle]
             /\ resp' = Answer("create", op.agent_id, obj.att.index,
                               "invalid", obj.errors, op.caps)

\* A create whose commit met a conflict: the controller starts over once
\* (get_last, a new object), and gives up the second time.
CreateConflict(q) ==
    LET op == ops[q]
        obj == CreateObject(op.agent_id, op.caps)
    IN  IF op.retried
        THEN /\ ops' = [ops EXCEPT ![q] = Idle]
             /\ resp' = Answer("create", op.agent_id, op.att.index, "conflict", {},
                               op.caps)
        ELSE /\ obj.att.index <= MaxIndex
             /\ IF ChangesValid(obj)
                THEN /\ ops' = [ops EXCEPT ![q] = CreateOp(op.agent_id, op.caps, TRUE)]
                     /\ resp' = NoAnswer
                ELSE /\ ops' = [ops EXCEPT ![q] = Idle]
                     /\ resp' = Answer("create", op.agent_id, obj.att.index,
                                       "invalid", obj.errors, op.caps)

\* commit_changes of the new object, first part: the check against get_last
CreateCommitCheck(q) ==
    /\ ops[q].kind = "create" /\ ops[q].pc = "commit"
    /\ IF CommitGuard(ops[q].att)
       THEN ops' = [ops EXCEPT ![q].pc = "insert"] /\ resp' = NoAnswer
       ELSE CreateConflict(q)
    /\ UNCHANGED <<attestations, agents, now, pull>>

\* commit_changes of the new object, second part: the insert of the row
CreateInsert(q) ==
    /\ ops[q].kind = "create" /\ ops[q].pc = "insert"
    /\ IF PrimaryKeyFree(ops[q].att)
       THEN /\ attestations' = attestations \cup {ops[q].att}
            /\ ops' = [ops EXCEPT ![q].pc = "cleanup"]
            /\ resp' = NoAnswer
       ELSE CreateConflict(q) /\ UNCHANGED attestations
    /\ UNCHANGED <<agents, now, pull>>

\* The rows cleanup_stale_priors deletes, given the previous attestation the
\* object holds (cached before the commit, or looked up now)
StalePriors(prev) ==
    IF prev = {} THEN {}
    ELSE IF TheOne(prev).status = "waiting" THEN prev
    ELSE IF TheOne(prev).status = "received" /\ now > DecisionExpectedBy(TheOne(prev))
         THEN prev
    ELSE {}

\* cleanup_stale_priors() on the committed object, then the answer
CreateCleanup(q) ==
    LET op == ops[q]
        prev == IF op.prev # {} THEN op.prev ELSE PreviousAttestation(op.agent_id)
        stale == StalePriors(prev)
    IN  /\ op.kind = "create" /\ op.pc = "cleanup"
        /\ attestations' = IF stale = {} THEN attestations
                           ELSE Delete(attestations, TheOne(stale))
        /\ ops' = [ops EXCEPT ![q] = Idle]
        /\ resp' = Answer("create", op.agent_id, op.att.index, "ok", {}, op.caps)
        /\ UNCHANGED <<agents, now, pull>>

\* The verification the controller starts for an object whose evidence was
\* committed
VerifyOp(att) == [kind |-> "verify", agent_id |-> att.agent_id, att |-> att]

\* PATCH attestations/index: receive_evidence and, when valid, commit_changes;
\* the verification of the committed object is then handed to request v.
ReceiveEvidence(v, a, i, ev, runtime_policy) ==
    LET rec == TheOne(GetByIndex(a, i))
        obj == ReceiveEvidenceObject(rec, ev, runtime_policy)
    IN  /\ GetByIndex(a, i) # {}
        /\ IF rec.status = "received"
           THEN /\ resp' = Answer("receive", a, i, "rejected", {}, ev)
                /\ UNCHANGED <<attestations, ops>>
           ELSE IF ChangesValid(obj)
           THEN /\ ops[v] = Idle
                /\ attestations' = Update(attestations, obj.att)
                /\ ops' = [ops EXCEPT ![v] = VerifyOp(obj.att)]
                /\ resp' = Answer("receive", a, i, "ok", {}, ev)
           ELSE /\ resp' = Answer("receive", a, i, "invalid", obj.errors, ev)
                /\ UNCHANGED <<attestations, ops>>
        /\ UNCHANGED <<agents, now, pull>>

\* verify_evidence called on a stored row, up to the call of check_quote: the
\* two guards
VerifyBegin(q, a, i) ==
    LET rec == TheOne(GetByIndex(a, i))
    IN  /\ ops[q] = Idle
        /\ GetByIndex(a, i) # {}
        /\ IF rec.status \in {"verified", "failed"}
           THEN /\ resp' = Answer("verify", a, i, "rejected", {}, NoRequest)
                /\ UNCHANGED ops
           ELSE /\ ops' = [ops EXCEPT ![q] = VerifyOp(rec)]
                /\ resp' = NoAnswer
        /\ UNCHANGED <<attestations, agents, now, pull>>

\* _clear_agent_fields: only when the agent has no attestation left
ClearAgentFields(agent, a) ==
    IF GetLast(a) # {} THEN agent ELSE [agent EXCEPT !.next_ima_ml_entry = NULL]

\* The row the housekeeping of verify_evidence deletes
Housekeeping(obj) ==
    LET prev == PreviousAttestation(obj.att.agent_id)
    IN  IF /\ obj.att.status = "verified"
           /\ prev # {}
           /\ TheOne(prev).status = "verified"
           /\ TheOne(prev).starting_ima_offset # 0
        THEN prev ELSE {}

\* A verify_evidence that saves the learned keyrings whatever the failure
LearnedKeyringsAlways(agent, att, outcome) == outcome.keyrings

\* The learned keyrings of the agent after verify_evidence: saved only if the
\* quote was authenticated
LearnedKeyrings(agent, att, outcome) ==
    IF att.failure_type # "quote_authentication" THEN outcome.keyrings
    ELSE agent.learned_ima_keyrings

\* verify_evidence from the return of check_quote to commit_changes; persist
\* says whether a commit of an object with errors writes the row
VerifyFinish(q, outcome, persist) ==
    LET op == ops[q]
        a == op.agent_id
        obj == VerifyObject(op.att, outcome)
        gone == Housekeeping(obj)
        kept == IF gone = {} THEN attestations ELSE Delete(attestations, TheOne(gone))
        written == ChangesValid(obj) \/ persist
    IN  /\ op.kind = "verify"
        /\ agents' = [agents EXCEPT ![a] =
              [ClearAgentFields(@, a) EXCEPT
                  !.accept_attestations = (obj.att.status = "verified"),
                  !.learned_ima_keyrings = LearnedKeyrings(agents[a], obj.att, outcome)]]
        /\ attestations' = IF written THEN Update(kept, obj.att) ELSE kept
        /\ ops' = [ops EXCEPT ![q] = Idle]
        /\ resp' = Answer("verify", a, op.att.index,
                          IF ~ written THEN "error"
                          ELSE IF RowExists(kept, obj.att) THEN "ok" ELSE "dropped",
                          obj.errors, outcome)
        /\ UNCHANGED <<now, pull>>

\* Time passes
Tick(d) ==
    /\ now + d <= MaxTime
    /\ now' = now + d
    /\ resp' = NoAnswer
    /\ UNCHANGED <<attestations, agents, ops, pull>>

----------------------------------------------------------------------------
\* Pull mode (cloud_verifier_tornado.py): the verifier polls an agent for
\* quotes.  pull holds the operational state the db stores for the agent, the
\* agent dict that the coroutines share, the process_agent calls the event
\* loop will run, in order (ready), the HTTP requests that await a response
\* (waiting), the timers of call_later and the notifications sent.

\* db.get_agent returns None
ABSENT == "ABSENT"

\* config.getint('cloud_verifier', 'max_retries')
max_retries == 2
\* config.getfloat('cloud_verifier', 'retry_interval')
retry_interval == 1
\* interval = config.getfloat('cloud_verifier', 'quote_interval')
interval == 1

PolledAgent == "a1"

\* An agent dict that asks for a provider quote
NewAgentProvider(provide_V) ==
    [operational_state |-> "START", num_retries |-> 0, first_verified |-> FALSE,
     provide_V |-> provide_V, need_provider_quote |-> TRUE, pending_event |-> NULL]

\* The agent dict that db.add_agent returns for the body of a POST
NewAgent(provide_V) ==
    [operational_state |-> "START", num_retries |-> 0, first_verified |-> FALSE,
     provide_V |-> provide_V, need_provider_quote |-> FALSE, pending_event |-> NULL]

\* No agent was added
NoPolling ==
    [stored |-> ABSENT, agent |-> [NewAgent(FALSE) EXCEPT !.operational_state = ABSENT],
     ready |-> <<>>, waiting |-> <<>>, timers |-> {}, created |-> 0, notified |-> <<>>]

RemoveAt(seq, i) == SubSeq(seq, 1, i - 1) \o SubSeq(seq, i + 1, Len(seq))

\* response = await tornado_requests.request(...): the request is out
Send(p, kind, need_pubkey) ==
    [p EXCEPT !.waiting = Append(@, [kind |-> kind, need_pubkey |-> need_pubkey])]

\* IOLoop.current().call_later(delay, cb); the handle is the number of the
\* timer
CallLater(p, delay, cb, need_pubkey) ==
    [p EXCEPT !.timers = @ \cup {[id |-> p.created + 1, when |-> now + delay,
                                  cb |-> cb, need_pubkey |-> need_pubkey]},
              !.created = @ + 1]

\* IOLoop.current().remove_timeout(agent['pending_event']), when it is set
RemoveTimeout(p) ==
    IF p.agent.pending_event = NULL THEN p
    ELSE [p EXCEPT !.timers = {t \in @ : t.id # p.agent.pending_event}]

\* asyncio.ensure_future(self.process_agent(agent, new_operational_state))
EnsureFuture(p, new_operational_state) ==
    [p EXCEPT !.ready = Append(@, new_operational_state)]

\* cloud_verifier_common.notifyError(agent, msgtype)
NotifyError(p, msgtype) == [p EXCEPT !.notified = Append(@, msgtype)]

\* A retry test that allows one retry more
RetriesExhaustedLate(agent) == agent.num_retries > max_retries

\* agent['num_retries'] >= maxr
RetriesExhausted(agent) == agent.num_retries >= max_retries

\* process_agent with FAILED or INVALID_QUOTE: the state is stored and the
\* polling ends
Fail(p, new_operational_state) ==
    LET p1 == [p EXCEPT !.agent.operational_state = new_operational_state]
        p2 == IF new_operational_state = "INVALID_QUOTE"
              THEN NotifyError(p1, "revocation") ELSE p1
    IN  [RemoveTimeout(p2) EXCEPT !.stored = new_operational_state]

\* The transitions of process_agent, after the agent was written to the db.
\* When the retries are exhausted process_agent calls itself with FAILED: the
\* db then holds the state just written, so the call ends in Fail.
Transition(p, main, new) ==
    IF main = "START" /\ new = "GET_QUOTE"
    THEN Send([p EXCEPT !.agent.num_retries = 0,
                        !.agent.operational_state = "GET_QUOTE"], "get_quote", TRUE)
    ELSE IF main = "GET_QUOTE" /\ new = "GET_PROVIDER_QUOTE"
    THEN Send([p EXCEPT !.agent.num_retries = 0,
                        !.agent.operational_state = "GET_PROVIDER_QUOTE"],
              "get_prov_quote", TRUE)
    ELSE IF main \in {"GET_QUOTE", "GET_PROVIDER_QUOTE"} /\ new = "PROVIDE_V"
    THEN Send([p EXCEPT !.agent.num_retries = 0,
                        !.agent.operational_state = "PROVIDE_V",
                        !.agent.pending_event = NULL], "provide_v", FALSE)
    ELSE IF main \in {"PROVIDE_V", "GET_QUOTE", "GET_PROVIDER_QUOTE"} /\ new = "GET_QUOTE"
    THEN LET p1 == [p EXCEPT !.agent.num_retries = 0,
                             !.agent.operational_state = "GET_QUOTE"]
         IN  IF interval = 0 THEN Send(p1, "get_quote", FALSE)
             ELSE [CallLater(p1, interval, "get_quote", FALSE)
                      EXCEPT !.agent.pending_event = p1.created + 1]
    ELSE IF main = "GET_QUOTE" /\ new = "GET_QUOTE_RETRY"
    THEN IF RetriesExhausted(p.agent)
         THEN Fail(IF p.agent.first_verified THEN NotifyError(p, "comm_error") ELSE p,
                   "FAILED")
         ELSE CallLater([p EXCEPT !.agent.operational_state = "GET_QUOTE",
                                  !.agent.num_retries = @ + 1],
                        retry_interval, "get_quote", TRUE)
    ELSE IF main = "GET_PROVIDER_QUOTE" /\ new = "GET_PROVIDER_QUOTE_RETRY"
    THEN IF RetriesExhausted(p.agent)
         THEN Fail(IF p.agent.first_verified THEN NotifyError(p, "comm_error") ELSE p,
                   "FAILED")
         ELSE CallLater([p EXCEPT !.agent.num_retries = @ + 1],
                        retry_interval, "get_prov_quote", TRUE)
    ELSE IF main = "PROVIDE_V" /\ new = "PROVIDE_V_RETRY"
    THEN IF RetriesExhausted(p.agent)
         THEN Fail(NotifyError(p, "comm_error"), "FAILED")
         ELSE CallLater([p EXCEPT !.agent.operational_state = "PROVIDE_V",
                                  !.agent.num_retries = @ + 1],
                        retry_interval, "provide_v", FALSE)
    ELSE p

\* process_agent without the test for TENANT_FAILED
ProcessAgentNoStop(p, new_operational_state) ==
    LET main_agent_operational_state == p.agent.operational_state
    IN  IF p.stored = ABSENT THEN p
        ELSE IF p.stored = "TERMINATED"
             THEN [RemoveTimeout(p) EXCEPT !.stored = ABSENT]
        ELSE IF new_operational_state \in {"FAILED", "INVALID_QUOTE"}
             THEN Fail(p, new_operational_state)
        ELSE Transition([p EXCEPT !.stored = main_agent_operational_state],
                        main_agent_operational_state, new_operational_state)

\* process_agent(agent, new_operational_state) up to its return or to the
\* request it awaits; an exception (no stored agent, no transition that
\* applies) is logged and ends the call
ProcessAgent(p, new_operational_state) ==
    LET main_agent_operational_state == p.agent.operational_state
    IN  IF p.stored = ABSENT THEN p
        ELSE IF p.stored = "TERMINATED"
             THEN [RemoveTimeout(p) EXCEPT !.stored = ABSENT]
        ELSE IF p.stored = "TENANT_FAILED" THEN RemoveTimeout(p)
        ELSE IF new_operational_state \in {"FAILED", "INVALID_QUOTE"}
             THEN Fail(p, new_operational_state)
        ELSE Transition([p EXCEPT !.stored = main_agent_operational_state],
                        main_agent_operational_state, new_operational_state)

\* invoke_get_quote after the response: a quote that process_quote_response
\* accepts marks the agent as verified once; a body that cannot be read is
\* logged and nothing is scheduled
GetQuoteResponse(p, status_code, quote) ==
    IF status_code # 200
    THEN IF status_code = 599 THEN EnsureFuture(p, "GET_QUOTE_RETRY")
         ELSE EnsureFuture(p, "FAILED")
    ELSE IF quote = "unreadable" THEN p
    ELSE IF quote = "invalid" THEN EnsureFuture(p, "INVALID_QUOTE")
    ELSE LET p1 == [p EXCEPT !.agent.first_verified = TRUE]
             p2 == IF ~ p1.agent.provide_V
                   THEN [p1 EXCEPT !.agent.need_provider_quote = FALSE] ELSE p1
             p3 == IF p2.agent.need_provider_quote
                   THEN EnsureFuture(p2, "GET_PROVIDER_QUOTE") ELSE p2
         IN  IF p3.agent.provide_V THEN EnsureFuture(p3, "PROVIDE_V")
             ELSE EnsureFuture(p3, "GET_QUOTE")

\* invoke_get_prov_quote after the response
GetProvQuoteResponse(p, status_code) ==
    IF status_code # 200
    THEN IF status_code = 599 THEN EnsureFuture(p, "GET_PROVIDER_QUOTE_RETRY")
         ELSE EnsureFuture(p, "FAILED")
    ELSE p

\* invoke_provide_v after the response
ProvideVResponse(p, status_code) ==
    IF status_code # 200
    THEN IF status_code = 599 THEN EnsureFuture(p, "PROVIDE_V_RETRY")
         ELSE EnsureFuture(p, "FAILED")
    ELSE EnsureFuture(p, "GET_QUOTE")

\* The start of invoke_get_quote, invoke_get_prov_quote and invoke_provide_v
\* when a timer calls them: up to the request
Invoke(p, cb, need_pubkey) ==
    Send(IF cb = "get_prov_quote"
         THEN [p EXCEPT !.agent.operational_state = "GET_PROVIDER_QUOTE"]
         ELSE IF cb = "provide_v" THEN [p EXCEPT !.agent.pending_event = NULL]
         ELSE p,
         cb, need_pubkey)

\* The ima_whitelist of a POST body: one whose exclude list compiles, one whose
\* exclude list holds a regex that cannot be parsed ('*'), or no such key
Whitelists == {"good", "bad_exclude", NONE}

\* A POST that stores the agent again when the id exists, and polls it
PullPostOverwrite(provide_V, ima_whitelist) ==
    /\ IF ima_whitelist = NONE
       THEN /\ pull' = pull
            /\ resp' = Answer("post", PolledAgent, NULL, "400", {},
                              [ima_whitelist |-> ima_whitelist])
       ELSE /\ pull' = EnsureFuture([pull EXCEPT !.stored = "START",
                                                 !.agent = NewAgent(provide_V)],
                                    "GET_QUOTE")
            /\ resp' = Answer("post", PolledAgent, NULL, "200", {},
                              [ima_whitelist |-> ima_whitelist])
    /\ UNCHANGED <<attestations, agents, now, ops>>

\* POST agents/id: json_body['ima_whitelist'] raises KeyError when the key is
\* missing (400) and is stored as it is otherwise; then add_agent and the first
\* process_agent, or 409
PullPost(provide_V, ima_whitelist) ==
    /\ IF ima_whitelist = NONE
       THEN /\ pull' = pull
            /\ resp' = Answer("post", PolledAgent, NULL, "400", {},
                              [ima_whitelist |-> ima_whitelist])
       ELSE IF pull.stored # ABSENT
       THEN /\ pull' = pull
            /\ resp' = Answer("post", PolledAgent, NULL, "409", {},
                              [ima_whitelist |-> ima_whitelist])
       ELSE /\ pull' = EnsureFuture([pull EXCEPT !.stored = "START",
                                                 !.agent = NewAgent(provide_V)],
                                    "GET_QUOTE")
            /\ resp' = Answer("post", PolledAgent, NULL, "200", {},
                              [ima_whitelist |-> ima_whitelist])
    /\ UNCHANGED <<attestations, agents, now, ops>>

\* DELETE that also removes at once an agent that waits for a quote
RemovableOrPolled ==
    {"SAVED", "FAILED", "TERMINATED", "TENANT_FAILED", "INVALID_QUOTE", "GET_QUOTE"}

\* The states in which DELETE removes the agent at once
Removable == {"SAVED", "FAILED", "TERMINATED", "TENANT_FAILED", "INVALID_QUOTE"}

\* DELETE agents/id
PullDelete ==
    /\ IF pull.stored = ABSENT
       THEN /\ pull' = pull
            /\ resp' = Answer("delete", PolledAgent, NULL, "404", {}, NoRequest)
       ELSE IF pull.stored \in Removable
       THEN /\ pull' = [pull EXCEPT !.stored = ABSENT]
            /\ resp' = Answer("delete", PolledAgent, NULL, "200", {}, NoRequest)
       ELSE /\ pull' = [pull EXCEPT !.stored = "TERMINATED"]
            /\ resp' = Answer("delete", PolledAgent, NULL, "202", {}, NoRequest)
    /\ UNCHANGED <<attestations, agents, now, ops>>

\* PUT agents/id/stop for a stored agent: the 404 that the handler writes for
\* an agent that is found is followed by the 200 of the stop
PullPutStop ==
    /\ pull.stored # ABSENT
    /\ pull' = [pull EXCEPT !.stored = "TENANT_FAILED"]
    /\ resp' = Answer("put", PolledAgent, NULL, "200", {}, NoRequest)
    /\ UNCHANGED <<attestations, agents, now, ops>>

\* The verifier is started again (main): the event loop of the old process is
\* gone and every stored agent is SAVED
PullRestart ==
    /\ pull' = [pull EXCEPT !.stored = IF @ = ABSENT THEN ABSENT ELSE "SAVED",
                            !.ready = <<>>, !.waiting = <<>>, !.timers = {}]
    /\ resp' = Answer("main", NONE, NULL, "none", {}, NoRequest)
    /\ UNCHANGED <<attestations, agents, now, ops>>

\* The event loop runs the next process_agent call
PullProcessAgent ==
    /\ pull.ready # <<>>
    /\ pull' = ProcessAgent([pull EXCEPT !.ready = Tail(@)], Head(pull.ready))
    /\ resp' = Answer("process_agent", PolledAgent, NULL, Head(pull.ready), {},
                      NoRequest)
    /\ UNCHANGED <<attestations, agents, now, ops>>

\* A timer is due and calls its callback
PullTimer(t) ==
    /\ t \in pull.timers
    /\ now >= t.when
    /\ pull' = Invoke([pull EXCEPT !.timers = @ \ {t}], t.cb, t.need_pubkey)
    /\ resp' = Answer("timer", PolledAgent, NULL, t.cb, {}, NoRequest)
    /\ UNCHANGED <<attestations, agents, now, ops>>

\* The response to a request arrives
PullResponse(i, status_code, quote) ==
    LET req == pull.waiting[i]
        p == [pull EXCEPT !.waiting = RemoveAt(@, i)]
    IN  /\ i \in 1 .. Len(pull.waiting)
        /\ pull' = IF req.kind = "get_quote" THEN GetQuoteResponse(p, status_code, quote)
                   ELSE IF req.kind = "get_prov_quote"
                        THEN GetProvQuoteResponse(p, status_code)
                   ELSE ProvideVResponse(p, status_code)
        /\ resp' = Answer("response", PolledAgent, NULL, req.kind, {},
                          [status_code |-> status_code, quote |-> quote])
        /\ UNCHANGED <<attestations, agents, now, ops>>

----------------------------------------------------------------------------
\* The verifier with one agent

AcceptHash == <<"sha512", "sha256">>
AcceptEnc == <<"rsa">>
AcceptSign == <<"rsassa">>

\* An agent row as the tenant added it; next_ima_ml_entry is set when the
\* agent was attested in pull mode before
AgentRow(next) ==
    [accept_tpm_hash_algs |-> AcceptHash, accept_tpm_encryption_algs |-> AcceptEnc,
     accept_tpm_signing_algs |-> AcceptSign, accept_attestations |-> TRUE,
     learned_ima_keyrings |-> "keys0", next_ima_ml_entry |-> next]

\* The steps of the create requests R of the agents A
Creates(A, R, Caps) ==
    \/ \E a \in A, q \in R, caps \in Caps : CreateBegin(q, a, caps)
    \/ \E q \in R : CreateCommitCheck(q)
    \/ \E q \in R : CreateInsert(q)
    \/ \E q \in R : CreateCleanup(q)

\* Evidence for a stored row; its verification is handed to a request of V
Receives(A, V, Bodies, Echoes, Policies) ==
    \E a \in A, v \in V, rp \in Policies : \E rec \in Of(a) :
       \E ev \in EvidenceInputs(rec, Bodies, Echoes) :
          ReceiveEvidence(v, a, rec.index, ev, rp)

\* verify_evidence called on a stored row whatever its status
DirectVerifies(A, V) ==
    \E a \in A, q \in V : \E rec \in Of(a) : VerifyBegin(q, a, rec.index)

\* The verifications in flight come back from check_quote
Verifies(V, Failures, Consumed, Keys) ==
    \E q \in V, persist \in BOOLEAN :
       /\ ops[q].kind = "verify"
       /\ \E o \in CheckQuoteOutcomes(ops[q].att, Failures, Consumed, Keys) :
             VerifyFinish(q, o, persist)

\* The clock
Ticks(T) == \E d \in T : Tick(d)

\* The steps of the polling of an agent: the responses are those of Answers
Polls(Answers) ==
    \/ \E provide_V \in BOOLEAN : PullPost(provide_V, "good")
    \/ PullProcessAgent
    \/ \E t \in pull.timers : PullTimer(t)
    \/ \E i \in 1 .. Len(pull.waiting), r \in Answers :
          PullResponse(i, r.status_code, r.quote)

\* The verifier starts with an empty attestations table; rowsOf gives the rows
\* each agent may have been added with
InitWith(rowsOf) ==
    /\ attestations = {}
    /\ agents \in {f \in [AgentIds -> UNION {rowsOf[a] : a \in AgentIds}] :
                      \A a \in AgentIds : f[a] \in rowsOf[a]}
    /\ now = 0
    /\ ops = [q \in Requests |-> Idle]
    /\ resp = NoAnswer
    /\ pull = NoPolling

\* Inputs
GoodCaps == CapsInputs({1000}, {<<"sha256", "sha1">>}, {<<"rsassa">>})
GoodBody == Body("quote", <<"b", NL, "e", NL>>, NONE)
FailureInputs ==
    {<<>>, <<EvQuoteValidation>>, <<EvImaPcrMismatch>>, <<EvImaHashMismatch>>}

----------------------------------------------------------------------------
\* One agent whose requests follow one another, except that evidence may
\* arrive while the create that made the row has not answered; no time passes.

Init == InitWith([a \in AgentIds |-> {AgentRow(NULL)}])

Next ==
    \/ Creates({"a1"}, {1},
               CapsInputs({1000}, {<<"sha256", "sha1">>, <<"md5">>}, {<<"rsassa">>}))
    \/ Receives({"a1"}, {2}, {GoodBody}, {NULL, 0, 1}, {TRUE})
    \/ Verifies({2}, FailureInputs, {2}, {"keys1"})

Spec == Init /\ [][Next]_vars

----------------------------------------------------------------------------
\* The same agent with a clock that moves by days: a request may take long, and
\* a verification may never come back.

NextTimed ==
    \/ Creates({"a1"}, {1}, GoodCaps)
    \/ Receives({"a1"}, {2}, {GoodBody}, {NULL}, {TRUE})
    \/ Verifies({2}, {<<>>, <<EvImaHashMismatch>>}, {2}, {"keys1"})
    \/ Ticks({SecondsPerDay})

SpecTimed == Init /\ [][NextTimed]_vars

----------------------------------------------------------------------------
\* Two workers serve creates of the same agent at once; no time passes.

NextRace ==
    \/ Creates({"a1"}, {1, 2}, GoodCaps)
    \/ Receives({"a1"}, {3}, {GoodBody}, {NULL}, {TRUE})
    \/ Verifies({3}, {<<>>}, {2}, {"keys1"})

SpecRace == Init /\ [][NextRace]_vars

----------------------------------------------------------------------------
\* An agent that reboots or reports an earlier boot time, and that may have
\* been attested in pull mode before.

InitOffsets ==
    InitWith([a \in AgentIds |-> IF a = "a1" THEN {AgentRow(NULL), AgentRow(3)}
                                 ELSE {AgentRow(NULL)}])

NextOffsets ==
    \/ Creates({"a1"}, {1}, CapsInputs(BootTimes, {<<"sha256", "sha1">>}, {<<"rsassa">>}))
    \/ Receives({"a1"}, {2}, {GoodBody}, {NULL}, {TRUE})
    \/ Verifies({2}, {<<>>, <<EvQuoteValidation>>}, {2}, {"keys0"})

SpecOffsets == InitOffsets /\ [][NextOffsets]_vars

----------------------------------------------------------------------------
\* The same agent when a verification may consume no IMA entry at all, so that
\* an authenticated row may end where it started.

NextEpochs ==
    \/ Creates({"a1"}, {1}, CapsInputs(BootTimes, {<<"sha256", "sha1">>}, {<<"rsassa">>}))
    \/ Receives({"a1"}, {2}, {GoodBody}, {NULL}, {TRUE})
    \/ Verifies({2}, {<<>>}, {0, 2}, {"keys0"})

SpecEpochs == InitOffsets /\ [][NextEpochs]_vars

----------------------------------------------------------------------------
\* The same agent when the IMA log it sends may end without a newline, and the
\* replay may stop after any entry.

OpenBody == Body("quote", <<"b", NL, "e">>, NONE)

NextCounts ==
    \/ Creates({"a1"}, {1}, GoodCaps)
    \/ Receives({"a1"}, {2}, {GoodBody, OpenBody}, {NULL}, {TRUE})
    \/ Verifies({2}, {<<>>, <<EvImaHashMismatch>>}, {1, 2}, {"keys1"})

SpecCounts == Init /\ [][NextCounts]_vars

----------------------------------------------------------------------------
\* Agents added with any lists of accepted algorithms, the empty one included,
\* declare their capabilities.

HashAlgs == {"sha512", "sha256"}

AcceptLists(S) == UNION {[1 .. n -> S] : n \in 0 .. MaxLen}

AgentWith(hashes, encs, signs) ==
    [AgentRow(NULL) EXCEPT !.accept_tpm_hash_algs = hashes,
                           !.accept_tpm_encryption_algs = encs,
                           !.accept_tpm_signing_algs = signs]

InitNegotiation ==
    InitWith([a \in AgentIds |->
        IF a = "a1"
        THEN {AgentWith(h, e, g) : h \in AcceptLists(HashAlgs),
                                   e \in {<<>>, <<"rsa">>, <<"ecc", "rsa">>},
                                   g \in {<<"rsassa">>, <<"ecdsa">>}}
        ELSE {AgentRow(NULL)}])

NextNegotiation ==
    Creates(AgentIds, {1},
            CapsInputs({1000, NULL},
                       {<<"sha256", "sha1">>, <<"sha256", "sha512">>, <<"md5">>},
                       {<<"rsassa">>}))

SpecNegotiation == InitNegotiation /\ [][NextNegotiation]_vars

----------------------------------------------------------------------------
\* The same agent with a clock that moves by seconds, for the intervals the
\* scheduler counts.

NextSchedule ==
    \/ Creates({"a1"}, {1}, GoodCaps)
    \/ Receives({"a1"}, {2}, {GoodBody}, {NULL}, {TRUE})
    \/ Verifies({2}, {<<>>, <<EvImaHashMismatch>>}, {2}, {"keys1"})
    \/ (now < MaxClock /\ Ticks({1}))

SpecSchedule == Init /\ [][NextSchedule]_vars

----------------------------------------------------------------------------
\* The same agent whose verifications learn keyrings: the quote is authentic
\* or not, and the policy holds or not.

NextKeyrings ==
    \/ Creates({"a1"}, {1}, GoodCaps)
    \/ Receives({"a1"}, {2}, {GoodBody}, {NULL}, {TRUE})
    \/ Verifies({2}, {<<>>, <<EvQuoteValidation>>, <<EvImaHashMismatch>>}, {2}, {"keys1"})

SpecKeyrings == Init /\ [][NextKeyrings]_vars

----------------------------------------------------------------------------
\* The same agent when verify_evidence may be called on any stored row, also
\* on one whose evidence has not arrived.

NextDirect ==
    \/ Creates({"a1"}, {1}, GoodCaps)
    \/ Receives({"a1"}, {2}, {GoodBody}, {NULL}, {TRUE})
    \/ DirectVerifies({"a1"}, {2})
    \/ Verifies({2}, {<<>>, <<EvQuoteValidation>>}, {2}, {"keys1"})

SpecDirect == Init /\ [][NextDirect]_vars

----------------------------------------------------------------------------
\* The same agent with or without a runtime policy, when its evidence may lack
\* the IMA log or start it with another entry, and may echo any offset.

QuoteOnlyBody == Body("quote", <<>>, NONE)
NoBootBody == Body("quote", <<"e", NL>>, NONE)

NextEvidence ==
    \/ Creates({"a1"}, {1}, GoodCaps)
    \/ Receives({"a1"}, {2}, {GoodBody, QuoteOnlyBody, NoBootBody}, {NULL, 0, 1},
                BOOLEAN)
    \/ Verifies({2}, {<<>>}, {2}, {"keys1"})

SpecEvidence == Init /\ [][NextEvidence]_vars

----------------------------------------------------------------------------
\* Two agents served at once, each by a worker of its own for its creates:
\* the create of one agent may be in flight while the other agent is created,
\* sends evidence or is verified; no time passes.

NextAgents ==
    \/ Creates({"a1"}, {1}, GoodCaps)
    \/ Creates({"a2"}, {3}, GoodCaps)
    \/ Receives(AgentIds, {2}, {GoodBody}, {NULL}, {TRUE})
    \/ Verifies({2}, {<<>>}, {2}, {"keys1"})

SpecAgents == Init /\ [][NextAgents]_vars

----------------------------------------------------------------------------
\* Pull mode: one agent is added and polled; its answers are good quotes, bad
\* quotes, connection errors (599) and other errors.

QuoteAnswers ==
    {[status_code |-> 200, quote |-> "valid"], [status_code |-> 200, quote |-> "invalid"],
     [status_code |-> 200, quote |-> "unreadable"], [status_code |-> 599, quote |-> NONE],
     [status_code |-> 500, quote |-> NONE]}

NextPull ==
    \/ Polls(QuoteAnswers)
    \/ (now < MaxClock /\ Ticks({1}))

SpecPull == Init /\ [][NextPull]_vars

----------------------------------------------------------------------------
\* Pull mode with the tenant's requests: agents are added with any whitelist,
\* deleted and stopped while they are polled, and the verifier may be started
\* again.  An agent is added again only when nothing of an earlier polling is
\* left in the event loop.

NextAdmin ==
    \/ \E provide_V \in BOOLEAN, ima_whitelist \in Whitelists :
          /\ pull.stored = ABSENT
                => /\ pull.ready = <<>> /\ pull.waiting = <<>> /\ pull.timers = {}
                   /\ Len(pull.notified) < MaxNotified
                   /\ pull.created < MaxTimers
          /\ PullPost(provide_V, ima_whitelist)
    \/ PullDelete
    \/ PullPutStop
    \/ PullRestart
    \/ PullProcessAgent
    \/ \E t \in pull.timers : PullTimer(t)
    \/ \E i \in 1 .. Len(pull.waiting), r \in QuoteAnswers :
          PullResponse(i, r.status_code, r.quote)
    \/ (now < MaxClock /\ Ticks({1}))

SpecAdmin == Init /\ [][NextAdmin]_vars

----------------------------------------------------------------------------
\* Pull mode when the event loop keeps running: every queued process_agent call
\* is run, every timer that is due fires, every request gets a response (the
\* HTTP client answers 599 by itself when the agent does not), and time goes
\* on until MaxClock and for as long as a timer waits.  From MaxClock on the
\* agent answers with errors only, so that the polling ends.  The tenant adds
\* and deletes agents.

LateAnswers == {[status_code |-> 500, quote |-> NONE]}

AnswersAt(t) == IF t < MaxClock THEN QuoteAnswers ELSE LateAnswers

Responds ==
    \E i \in 1 .. Len(pull.waiting), r \in AnswersAt(now) :
       PullResponse(i, r.status_code, r.quote)

Fires == \E t \in pull.timers : PullTimer(t)

Passes ==
    /\ now < MaxClock \/ \E t \in pull.timers : t.when > now
    /\ Ticks({1})

NextTerminate ==
    \/ \E provide_V \in BOOLEAN :
          /\ pull.stored = ABSENT
                => /\ pull.ready = <<>> /\ pull.waiting = <<>> /\ pull.timers = {}
                   /\ Len(pull.notified) < MaxNotified
                   /\ pull.created < MaxTimers
          /\ PullPost(provide_V, "good")
    \/ PullDelete
    \/ PullProcessAgent
    \/ Fires
    \/ Responds
    \/ Passes

SpecTerminate ==
    /\ Init /\ [][NextTerminate]_vars
    /\ WF_vars(PullProcessAgent) /\ WF_vars(Fires) /\ WF_vars(Responds)
    /\ WF_vars(Passes)

----------------------------------------------------------------------------
\* Properties of the record lifecycle

\* The stored row with a key
Row(a, i) == TheOne(GetByIndex(a, i))

\* The row the step just answered for, before and after the step
Answered(rows) == {r \in rows : r.agent_id = resp'.agent_id /\ r.index = resp'.index}

\* The index values of the stored rows of an agent
Indices(a) == {r.index : r \in Of(a)}

\* No operation of the Lifecycle Manager is in progress for the agent
Quiescent(a) == \A q \in Requests : ops[q].kind # "idle" => ops[q].agent_id # a

\* No create is in progress for the agent
NoCreate(a) == \A q \in Requests : ops[q].kind = "create" => ops[q].agent_id # a

\* The waiting rows of an agent
Waiting(a) == {r \in Of(a) : r.status = "waiting"}

\* C1: once the operations on an agent have ended, the index values of its
\* stored rows are exactly 0..N-1, N the number of rows: no index twice and no
\* gap.
C1_IndicesContiguous ==
    \A a \in AgentIds :
        Quiescent(a) => /\ Indices(a) = 0 .. (Cardinality(Of(a)) - 1)
                        /\ Cardinality(Indices(a)) = Cardinality(Of(a))

\* C2: whenever no create is in progress for an agent, and so whenever no
\* operation at all is, at most one of its stored rows is waiting, and that
\* row has the agent's highest index.
C2_OneWaitingLast ==
    \A a \in AgentIds :
        NoCreate(a) => /\ Cardinality(Waiting(a)) <= 1
                       /\ \A w \in Waiting(a) : w.index = Max(Indices(a))

\* C3: the stored status of a row changes only from waiting to received, by
\* receive_evidence, and from received to verified or failed, by
\* verify_evidence; no step moves it backward or skips a status.
C3_StatusTransitions ==
    [][\A r \in attestations : \A t \in attestations' :
          (t.agent_id = r.agent_id /\ t.index = r.index /\ t.status # r.status)
          => \/ r.status = "waiting" /\ t.status = "received" /\ resp'.op = "receive"
             \/ /\ r.status = "received" /\ t.status \in {"verified", "failed"}
                /\ resp'.op = "verify"]_vars

\* C4: in every stored row failure_type is set exactly when status is failed,
\* and a failed row carries quote_authentication, log_authentication or
\* policy_violation.
C4_FailureTypeIffFailed ==
    \A r \in attestations :
        /\ (r.failure_type # NONE) <=> (r.status = "failed")
        /\ r.status = "failed" =>
              r.failure_type \in {"quote_authentication", "log_authentication",
                                  "policy_violation"}

\* A create request built its object in this step (the first time or again
\* after a conflict)
Built(q) == ops'[q].kind = "create" /\ ops'[q].pc = "commit" /\ ops'[q] # ops[q]

\* A create request was declined in this step for validation errors
Declined == resp'.op = "create" /\ resp'.code = "invalid"

\* A create request inserted its row in this step
Inserted(q) ==
    /\ ops[q].kind = "create" /\ ops[q].pc = "insert"
    /\ ops[q].att \in attestations' \ attestations

\* What the offset rule says of the object of a create request
OffsetByRule(op) ==
    LET prev == PreviousAuthenticated(op.agent_id, op.att.index)
    IN  IF prev = {} THEN op.att.starting_ima_offset = 0
        ELSE IF op.caps.boottime > TheOne(prev).boottime
             THEN op.att.starting_ima_offset = 0
        ELSE op.caps.boottime = TheOne(prev).boottime =>
                op.att.starting_ima_offset =
                   TheOne(prev).starting_ima_offset + TheOne(prev).quoted_ima_entries_count

\* The agent has no stored attestation and its row holds an offset
FromAgent(a) == GetLast(a) = {} /\ agents[a].next_ima_ml_entry \notin {NULL, 0}

Supported(accept, supported) == {i \in 1 .. Len(accept) : InSeq(accept[i], supported)}

\* Every one of the three accept lists of the agent has a supported entry
Negotiable(agent, caps) ==
    /\ Supported(agent.accept_tpm_hash_algs, caps.supported_hash_algs) # {}
    /\ Supported(agent.accept_tpm_encryption_algs, caps.supported_enc_algs) # {}
    /\ Supported(agent.accept_tpm_signing_algs, caps.supported_sign_algs) # {}

\* The first accepted algorithm that the TPM supports
FirstSupported(accept, supported) ==
    accept[CHOOSE i \in Supported(accept, supported) :
              \A j \in Supported(accept, supported) : i <= j]

AlgFields == {"hash_alg", "enc_alg", "sign_alg"}

\* C6: when each accept list of the agent has an entry the TPM supports, the
\* negotiation raises no error and the object gets, for hash, enc and sign, the
\* first entry of the accept list that is supported.
C6_FirstMatch ==
    [][/\ (Declined /\ Negotiable(agents[resp'.agent_id], resp'.req))
            => resp'.errors \cap AlgFields = {}
       /\ \A q \in Requests :
            (Built(q) /\ Negotiable(agents[ops'[q].agent_id], ops'[q].caps)) =>
               LET agent == agents[ops'[q].agent_id]
                   caps == ops'[q].caps
                   att == ops'[q].att
               IN  /\ att.hash_alg = FirstSupported(agent.accept_tpm_hash_algs,
                                                    caps.supported_hash_algs)
                   /\ att.enc_alg = FirstSupported(agent.accept_tpm_encryption_algs,
                                                   caps.supported_enc_algs)
                   /\ att.sign_alg = FirstSupported(agent.accept_tpm_signing_algs,
                                                    caps.supported_sign_algs)]_vars

\* C6 happens: the agent accepts sha512 then sha256, its TPM supports sha256
\* and sha1, and the row is stored with sha256
C6_Witness ==
    \E q \in Requests :
        /\ ops[q].kind = "create" /\ ops[q].pc = "cleanup"
        /\ agents[ops[q].agent_id].accept_tpm_hash_algs = <<"sha512", "sha256">>
        /\ ops[q].caps.supported_hash_algs = <<"sha256", "sha1">>
        /\ ops[q].att.hash_alg = "sha256"
        /\ ops[q].att \in attestations

\* C7: a create for which one of the accept lists of the agent has no entry
\* the TPM supports, the empty list included, fails and leaves the table as it
\* was: a declined create changes no row, and no row is ever inserted for such
\* a create.
C7_NoMatchDeclined ==
    [][/\ (Declined /\ ~ Negotiable(agents[resp'.agent_id], resp'.req))
            => attestations' = attestations
       /\ \A q \in Requests :
            Inserted(q) => Negotiable(agents[ops[q].agent_id], ops[q].caps)]_vars

\* The reported boottime is before that of the previous authenticated
\* attestation of the object with index i
Regresses(a, i, boottime) ==
    \E p \in PreviousAuthenticated(a, i) : boottime # NULL /\ boottime < p.boottime

\* C8: a create that reports a boottime before that of the previous
\* authenticated attestation is declined with an error on boottime and leaves
\* the table as it was; no object is built for it.
C8_RegressionDeclined ==
    [][/\ (Declined /\ Regresses(resp'.agent_id, resp'.index, resp'.req.boottime))
            => ("boottime" \in resp'.errors /\ attestations' = attestations)
       /\ \A q \in Requests :
            Built(q) => ~ Regresses(ops'[q].agent_id, ops'[q].att.index,
                                    ops'[q].caps.boottime)]_vars

\* C8 happens: a create was declined for its boottime while an authenticated
\* row of a later boot is stored
C8_Witness ==
    /\ resp.op = "create" /\ resp.code = "invalid" /\ "boottime" \in resp.errors
    /\ \E p \in PreviousAuthenticated(resp.agent_id, resp.index) :
          resp.req.boottime < p.boottime

\* C9: receive_evidence called later than the row's nonce_expires_at is
\* rejected; the row stays waiting, without evidence and without
\* evidence_received_at.
C9_ReceiveAfterExpiryRejected ==
    [][(resp'.op = "receive" /\ \E r \in Answered(attestations) : now > r.nonce_expires_at)
          => /\ resp'.code # "ok"
             /\ \A r \in Answered(attestations) : r.status = "waiting" =>
                   \E t \in Answered(attestations') :
                      /\ t.status = "waiting" /\ t.tpm_quote = NONE
                      /\ t.evidence_received_at = NULL]_vars

\* C10: receive_evidence on a row whose stored status is not waiting is
\* rejected and leaves the table as it was.
C10_ReceiveOnNonWaitingRejected ==
    [][(resp'.op = "receive" /\ \E r \in Answered(attestations) : r.status # "waiting")
          => (resp'.code # "ok" /\ attestations' = attestations)]_vars

----------------------------------------------------------------------------
\* Properties of the scheduler and of verify_evidence

\* C11: while the accept_attestations flag of an agent is false, as it is once
\* a verify_evidence for it ended with status failed,
\* accept_new_attestations_in refuses: it returns neither 0 nor any other
\* number of seconds.
C11_GatedAgentRefused ==
    \A a \in AgentIds :
        ~ agents[a].accept_attestations => AcceptNewAttestationsIn(a).kind = "refuse"

\* A verify_evidence ended in this step
Verified == resp'.op = "verify"

Judged(r) == r.quoted_ima_entries_count # NULL

\* C13: a row that verify_evidence has set to verified or failed gets no second
\* verdict: a later verify_evidence for it is rejected and changes neither its
\* status or failure_type nor the accept_attestations flag of the agent.
C13_OneVerdict ==
    [][\A r \in Answered(attestations) :
          (Verified /\ Judged(r)) =>
             /\ resp'.code = "rejected"
             /\ \A t \in Answered(attestations') :
                   t.status = r.status /\ t.failure_type = r.failure_type
             /\ agents'[r.agent_id].accept_attestations
                   = agents[r.agent_id].accept_attestations]_vars

\* C14: for an agent that accepts attestations, accept_new_attestations_in
\* returns 0 without a stored row; the positive gap to
\* next_attestation_expected_after while now is before it; a wait other than 0
\* when the last row is received and now is not after decision_expected_by;
\* and 0 otherwise.
C14_AcceptNewAttestationsIn ==
    \A a \in AgentIds :
        agents[a].accept_attestations =>
           LET last == GetLast(a)
               r == TheOne(last)
               expected == (IF r.evidence_received_at # NULL
                            THEN r.evidence_received_at
                            ELSE r.nonce_created_at) + quote_interval
               answer == AcceptNewAttestationsIn(a)
           IN  IF last = {} THEN answer = Wait(0)
               ELSE IF now < expected
                    THEN answer = Wait(expected - now) /\ expected - now > 0
               ELSE IF r.status = "received" /\ now <= DecisionExpectedBy(r)
                    THEN answer.kind = "wait" /\ answer.seconds # 0
               ELSE answer = Wait(0)

----------------------------------------------------------------------------
\* Properties of cleanup and of concurrent creates

\* The cleanup_stale_priors of create request q ran in this step
CleanedUp(q) == ops[q].kind = "create" /\ ops[q].pc = "cleanup" /\ ops'[q] = Idle

\* The stored rows of an agent below index i, and the one just below it
Priors(a, i) == {r \in Of(a) : r.index < i}

ImmediatePrior(a, i) ==
    {r \in Priors(a, i) : \A s \in Priors(a, i) : s.index <= r.index}

\* A row without a verdict that is waiting, or received and past its
\* decision_expected_by
Stale(r) ==
    \/ r.status = "waiting"
    \/ r.status = "received" /\ now > DecisionExpectedBy(r)

\* C15: the cleanup_stale_priors that follows a create deletes the row just
\* below the new one exactly when that row is waiting, or received with now
\* after its decision_expected_by; a prior row that is verified or failed, or
\* received and still in time, stays.
C15_CleanupRule ==
    [][\A q \in Requests : CleanedUp(q) =>
          \A p \in Priors(ops[q].agent_id, ops[q].att.index) :
             (p \notin attestations') <=>
                (p \in ImmediatePrior(ops[q].agent_id, ops[q].att.index) /\ Stale(p))]_vars

\* C16: a create for an agent whose last row N is stale (waiting, or received
\* past its decision_expected_by) builds its object with the index N of that
\* row, which the cleanup frees, not with N+1.
C16_StaleIndexReused ==
    [][\A q \in Requests : Built(q) =>
          \A p \in GetLast(ops'[q].agent_id) :
             Stale(p) => ops'[q].att.index = p.index]_vars

\* Another create of the same agent has just committed a row at the index of
\* the object of request q and answered: q built its object from the same
\* last row, before that commit
Overtaken(q) ==
    /\ ops[q].kind = "create" /\ ops[q].pc = "commit"
    /\ resp.op = "create" /\ resp.code = "ok"
    /\ resp.agent_id = ops[q].agent_id /\ resp.index = ops[q].att.index

\* C17: of two creates of an agent that built their objects from the same last
\* row, one commits at the computed index; the commit of the other meets a
\* conflict and writes nothing, and no two stored rows share (agent_id, index).
C17_OneCommitPerIndex ==
    [][/\ \A q \in Requests :
            Overtaken(q) => (ops'[q].pc # "insert" /\ attestations' = attestations)
       /\ \A r, t \in attestations' :
            (r.agent_id = t.agent_id /\ r.index = t.index) => r = t]_vars

\* C18: a verify_evidence that ends after cleanup deleted its row is dropped:
\* the row is not stored again and nothing changes, neither the table nor the
\* accept_attestations flag and the learned_ima_keyrings of the agent.
C18_LateVerdictDropped ==
    [][(Verified /\ Answered(attestations) = {})
          => (attestations' = attestations /\ agents' = agents)]_vars

\* The failure_type that the table of event ids gives for one event
TableFailureType(event) ==
    IF event[1] = "quote_validation" THEN "quote_authentication"
    ELSE IF \/ StartsWith(event, <<"measured_boot", ".", "invalid_pcr_">>)
            \/ event = EvImaPcrMismatch
         THEN "log_authentication"
    ELSE "policy_violation"

\* C19: a verify_evidence that ends with a Failure that is not empty leaves on
\* the row the failure_type that the table gives for the first event:
\* quote_authentication for quote_validation.*, log_authentication for
\* measured_boot.invalid_pcr_* and ima.pcr_mismatch, policy_violation for any
\* other event.
C19_FailureTypeByTable ==
    [][(Verified /\ resp'.code # "rejected" /\ resp'.req.events # <<>>) =>
          \A t \in Answered(attestations') :
             t.failure_type = TableFailureType(resp'.req.events[1])]_vars

----------------------------------------------------------------------------
\* Properties of the polling in pull mode

\* process_agent was run in this step for a connection error of the quote
\* request of an agent that is polled
QuoteRetryStep ==
    /\ resp'.op = "process_agent" /\ resp'.code = "GET_QUOTE_RETRY"
    /\ pull.stored \notin {ABSENT, "TERMINATED", "TENANT_FAILED"}

\* Nothing is scheduled for the agent: no process_agent call, no request and
\* no timer
NothingScheduled(p) == p.ready = <<>> /\ p.waiting = <<>> /\ p.timers = {}

\* C20: num_retries never exceeds max_retries; a connection error (599) of the
\* quote request below max_retries schedules one new quote request
\* retry_interval later and counts it; at max_retries the next connection
\* error sets the agent to FAILED, and nothing is scheduled for a FAILED agent
\* from then on.
C20_RetriesBounded ==
    [][/\ pull'.agent.num_retries <= max_retries
       /\ QuoteRetryStep =>
             IF pull.agent.num_retries < max_retries
             THEN /\ pull'.agent.num_retries = pull.agent.num_retries + 1
                  /\ pull'.agent.operational_state = "GET_QUOTE"
                  /\ Cardinality(pull'.timers \ pull.timers) = 1
                  /\ \A t \in pull'.timers \ pull.timers :
                        t.cb = "get_quote" /\ t.when = now + retry_interval
                  /\ pull'.waiting = pull.waiting
             ELSE /\ pull'.agent.operational_state = "FAILED"
                  /\ pull'.stored = "FAILED"
                  /\ NothingScheduled(pull')
       /\ pull.agent.operational_state = "FAILED" => NothingScheduled(pull')]_vars

\* C20 happens: the agent was set to FAILED by the connection error that
\* followed its last retry
C20_Witness ==
    /\ resp.op = "process_agent" /\ resp.code = "GET_QUOTE_RETRY"
    /\ pull.agent.operational_state = "FAILED" /\ pull.stored = "FAILED"
    /\ pull.agent.num_retries = max_retries

\* The step is the answer of a DELETE
Deleted == resp'.op = "delete"

\* C21: DELETE of a stored agent in SAVED, FAILED, TERMINATED, TENANT_FAILED or
\* INVALID_QUOTE removes it and answers 200; in any other state it sets the
\* stored state to TERMINATED, changes nothing else and answers 202; DELETE of
\* an agent that is not stored answers 404 and changes nothing.
C21_Delete ==
    [][Deleted =>
          IF pull.stored = ABSENT
          THEN resp'.code = "404" /\ pull' = pull
          ELSE IF pull.stored \in {"SAVED", "FAILED", "TERMINATED", "TENANT_FAILED",
                                   "INVALID_QUOTE"}
          THEN resp'.code = "200" /\ pull' = [pull EXCEPT !.stored = ABSENT]
          ELSE resp'.code = "202" /\ pull' = [pull EXCEPT !.stored = "TERMINATED"]]_vars

\* C21 happens: an agent that is polled and was verified before is deleted:
\* 202, and the quote request that is out stays out
C21_Witness ==
    /\ resp.op = "delete" /\ resp.code = "202"
    /\ pull.stored = "TERMINATED"
    /\ pull.agent.operational_state = "GET_QUOTE"
    /\ pull.agent.first_verified
    /\ pull.waiting # <<>>

\* The step is the answer of a POST whose ima_whitelist has an exclude list
\* with a regex that cannot be parsed
PostedBadExclude == resp'.op = "post" /\ resp'.req.ima_whitelist = "bad_exclude"

\* C22: a POST with an unparseable regex in the exclude list of its whitelist
\* is answered 400; the agent is not added, a stored agent is not modified and
\* no polling is started.
C22_BadExcludeRejected ==
    [][PostedBadExclude => resp'.code = "400" /\ pull' = pull]_vars

\* C23: a notification is sent for an agent only if it was verified at least
\* once before (first_verified); an agent that fails without ever having been
\* verified produces none.
C23_NotifyOnlyVerified ==
    [][pull'.notified # pull.notified => pull.agent.first_verified]_vars

\* The verification that request q holds ends in this step, and it was started
\* on a row that was still waiting
VerifiedWaiting(q) ==
    /\ ops[q].kind = "verify" /\ ops[q].att.status = "waiting"
    /\ ops'[q] = Idle

\* C24: verify_evidence on a row that is still waiting gives no verdict: the
\* status, failure_type and quoted_ima_entries_count of the row and the
\* accept_attestations flag of the agent stay as they were.
C24_WaitingNotVerified ==
    [][\A q \in Requests :
          VerifiedWaiting(q) =>
             /\ \A r \in GetByIndex(ops[q].agent_id, ops[q].att.index) :
                   \E t \in attestations' :
                      /\ t.agent_id = r.agent_id /\ t.index = r.index
                      /\ t.status = r.status /\ t.failure_type = r.failure_type
                      /\ t.quoted_ima_entries_count = r.quoted_ima_entries_count
             /\ agents'[ops[q].agent_id].accept_attestations
                   = agents[ops[q].agent_id].accept_attestations]_vars

\* C25: the cleanup_stale_priors that create runs on its committed waiting row
\* never deletes that row: after create and cleanup the new row is stored, also
\* when it is the first row of the agent and when no previous attestation was
\* cached before the commit.
C25_CleanupKeepsNewRow ==
    [][\A q \in Requests :
          CleanedUp(q) =>
             \E t \in attestations' :
                t.agent_id = ops[q].agent_id /\ t.index = ops[q].att.index]_vars

\* The rows with the key of r
Keyed(rows, r) == {t \in rows : t.agent_id = r.agent_id /\ t.index = r.index}

\* C26: when verify_evidence stores row k as verified, the row just below k is
\* deleted if and only if it is verified with a starting_ima_offset other than
\* 0; no other row is deleted, row k included.
C26_Housekeeping ==
    [][(Verified /\ \E t \in Answered(attestations') : t.status = "verified")
          => \A r \in attestations :
                Keyed(attestations', r) = {}
                   <=> /\ r \in ImmediatePrior(resp'.agent_id, resp'.index)
                       /\ r.status = "verified"
                       /\ r.starting_ima_offset # 0]_vars

\* The row of the highest index among rows
Highest(rows) == {r \in rows : \A s \in rows : s.index <= r.index}

\* C27: for a stored row k, previous_attestation, previous_authenticated_
\* attestation and previous_successful_attestation give a row of the same agent
\* below index k or none: the last row below k, the last one below k that is
\* verified or failed other than by quote_authentication, and the last
\* verified one below k.
C27_PreviousBelow ==
    \A k \in attestations :
       LET below == Priors(k.agent_id, k.index)
       IN  /\ PreviousAttestation(k.agent_id) \subseteq below
           /\ PreviousSuccessful(k.agent_id)
                 = Highest({r \in below : r.status = "verified"})
           /\ PreviousAuthenticated(k.agent_id, k.index)
                 = Highest({r \in below : /\ r.status \in {"verified", "failed"}
                                          /\ r.failure_type # "quote_authentication"})

\* The object of a create request starts a boot epoch by the rule as stated:
\* it has no previous authenticated attestation or a later boottime
FreshEpoch(op) ==
    LET prev == PreviousAuthenticated(op.agent_id, op.att.index)
    IN  prev = {} \/ op.caps.boottime > TheOne(prev).boottime

\* The previous authenticated attestation of the object is of the same boot
\* and ended at entry 0
ContinuesAtZero(op) ==
    \E p \in PreviousAuthenticated(op.agent_id, op.att.index) :
        op.caps.boottime = p.boottime /\ NextImaOffset(p) = 0

C29_QuotedWithinReceived ==
    [][(Verified /\ resp'.code = "ok")
          => \A t \in Answered(attestations') :
                /\ t.quoted_ima_entries_count = resp'.req.consumed
                /\ 0 <= t.quoted_ima_entries_count
                /\ t.quoted_ima_entries_count <= ReceivedImaEntriesCount(t)]_vars

\* C30: a verify_evidence whose quote is not authenticated stores no
\* quoted_ima_entries_count on the row, and the object a later create builds
\* takes its offset from the previous authenticated attestation, never from a
\* row that failed by quote_authentication.
C30_NothingFromUnauthenticatedQuote ==
    [][/\ Verified
            => \A t \in Answered(attestations') :
                  t.failure_type = "quote_authentication"
                     => t.quoted_ima_entries_count = NULL
       /\ \A q \in Requests :
            (Built(q) /\ ~ FromAgent(ops'[q].agent_id)) =>
               \A r \in Of(ops'[q].agent_id) :
                  (r.failure_type = "quote_authentication"
                      /\ r.boottime = ops'[q].att.boottime
                      /\ PreviousAuthenticated(ops'[q].agent_id, ops'[q].att.index) = {})
                     => ops'[q].att.starting_ima_offset = 0]_vars

----------------------------------------------------------------------------
\* Properties of timestamps, evidence validation and retries

\* C31: the object create builds has nonce_expires_at - nonce_created_at equal
\* to nonce_lifetime, counted in seconds, and so nonce_created_at <=
\* nonce_expires_at.
C31_NonceLifetimeSeconds ==
    [][\A q \in Requests :
          Built(q) =>
             /\ ops'[q].att.nonce_expires_at - ops'[q].att.nonce_created_at
                   = nonce_lifetime
             /\ ops'[q].att.nonce_created_at <= ops'[q].att.nonce_expires_at]_vars

\* The evidence requests the step may have served: the waiting row it answers
\* for, the request it answers, and an agent with or without runtime policy
EvidenceCalls ==
    IF resp'.op # "receive" THEN {}
    ELSE {[row |-> r, policy |-> rp, ev |-> resp'.req] :
             r \in {w \in Answered(attestations) : w.status = "waiting"},
             rp \in BOOLEAN}

\* The step is receive_evidence with this request
Received(c) ==
    \E v \in Requests :
       ReceiveEvidence(v, c.row.agent_id, c.row.index, c.ev, c.policy)

\* C32: receive_evidence on a waiting row is rejected, the row staying waiting
\* and without evidence, when the agent has a runtime policy and the request
\* has no ima_entries, when the echoed starting_ima_offset is not the stored
\* one, or when the stored offset is 0 and the first IMA entry is no
\* boot_aggregate line.
C32_BadEvidenceRejected ==
    [][\A c \in EvidenceCalls :
          (/\ Received(c)
           /\ \/ c.policy /\ c.ev.ima_entries = <<>>
              \/ c.ev.starting_ima_offset # c.row.starting_ima_offset
              \/ /\ c.row.starting_ima_offset = 0
                 /\ ~ HasBootAggregate(FirstLine(c.ev.ima_entries)))
          => /\ resp'.code = "invalid"
             /\ attestations' = attestations
             /\ c.row.tpm_quote = NONE]_vars

\* C32 happens: evidence that echoes another offset than the one the waiting
\* row holds was answered with an error on starting_ima_offset, and the row is
\* still waiting without evidence
C32_Witness ==
    /\ resp.op = "receive" /\ resp.code = "invalid"
    /\ \E r \in Waiting(resp.agent_id) :
          /\ r.index = resp.index /\ r.tpm_quote = NONE
          /\ resp.req.starting_ima_offset # r.starting_ima_offset
          /\ "starting_ima_offset" \in resp.errors

\* C33: for an agent without runtime policy, receive_evidence on a waiting row
\* with a tpm_quote, no ima_entries and the stored offset echoed is accepted
\* and sets the row to received, also when the row starts at offset 0.
C33_QuoteOnlyAccepted ==
    [][\A c \in EvidenceCalls :
          (/\ Received(c)
           /\ ~ c.policy
           /\ c.ev.tpm_quote # NONE /\ c.ev.ima_entries = <<>>
           /\ c.ev.starting_ima_offset = c.row.starting_ima_offset)
          => /\ resp'.code = "ok"
             /\ \E t \in Answered(attestations') : t.status = "received"]_vars

\* The commit of the create request q meets a conflict in this step: the
\* get_last check or the primary key refuses its row
Conflicts(q) ==
    /\ ops[q].kind = "create" /\ ops'[q] # ops[q]
    /\ \/ ops[q].pc = "commit" /\ ~ CommitGuard(ops[q].att)
       \/ ops[q].pc = "insert" /\ ~ PrimaryKeyFree(ops[q].att)

\* The index a create computes from the stored rows
NextIndex(a) == IF GetLast(a) = {} THEN 0 ELSE TheOne(GetLast(a)).index + 1

C35_WaitUntilDecision ==
    \A a \in AgentIds : \A r \in GetLast(a) :
        (r.status = "received" /\ now <= DecisionExpectedBy(r))
           => /\ AcceptNewAttestationsIn(a) = Wait(DecisionExpectedBy(r) - now)
              /\ AcceptNewAttestationsIn(a).seconds <= DecisionExpectedBy(r) - now

\* The agents this step works for: those of the requests that moved and of
\* the answer given
Actors ==
    {IF ops[q].kind # "idle" THEN ops[q].agent_id ELSE ops'[q].agent_id :
        q \in {x \in Requests : ops'[x] # ops[x]}}
    \cup (IF resp'.op \in {"create", "receive", "verify"} THEN {resp'.agent_id} ELSE {})

\* The rows of an agent in a table
RowsOf(rows, a) == {r \in rows : r.agent_id = a}

\* C36: create, receive_evidence, verify_evidence with its housekeeping and
\* cleanup_stale_priors, run for one agent, leave every stored row of any
\* other agent as it was, however the operations of the agents interleave.
C36_OtherAgentsUntouched ==
    [][/\ Cardinality(Actors) <= 1
       /\ \A b \in AgentIds \ Actors :
             RowsOf(attestations', b) = RowsOf(attestations, b)]_vars

\* C36 happens: the cleanup of a create of one agent has deleted the waiting
\* row of that agent and answered, while the other agent has a waiting row and
\* a create in flight
C36_Witness ==
    /\ resp.op = "create" /\ resp.code = "ok"
    /\ \E b \in AgentIds \ {resp.agent_id} :
          /\ Waiting(b) # {}
          /\ \E q \in Requests : ops[q].kind = "create" /\ ops[q].agent_id = b
    /\ Of(resp.agent_id) = {}

----------------------------------------------------------------------------
\* Properties of the polling state machine

\* The pairs (state of the agent, new state) for which process_agent has a
\* transition
HandledPairs ==
    {<<"START", "GET_QUOTE">>, <<"GET_QUOTE", "GET_PROVIDER_QUOTE">>,
     <<"GET_QUOTE", "GET_QUOTE_RETRY">>,
     <<"GET_PROVIDER_QUOTE", "GET_PROVIDER_QUOTE_RETRY">>,
     <<"PROVIDE_V", "PROVIDE_V_RETRY">>}
    \cup ({"GET_QUOTE", "GET_PROVIDER_QUOTE"} \X {"PROVIDE_V"})
    \cup ({"PROVIDE_V", "GET_QUOTE", "GET_PROVIDER_QUOTE"} \X {"GET_QUOTE"})

\* The step is a call of process_agent that gets as far as its transitions:
\* the agent is stored, the tenant has not ended the polling, and the new
\* state is not a failure
Dispatched ==
    /\ resp'.op = "process_agent"
    /\ pull.stored \notin {ABSENT, "TERMINATED", "TENANT_FAILED"}
    /\ resp'.code \notin {"FAILED", "INVALID_QUOTE"}

Terminates == resp'.op = "process_agent" /\ pull.stored = "TERMINATED"

\* C38: after a DELETE answered 202 the next process_agent call removes the
\* stored agent and schedules nothing; so the agent is removed in the end, and
\* once it is removed nothing but a new POST stores it again.
C38_TerminatedIsRemoved ==
    /\ [][Terminates => /\ pull'.stored = ABSENT
                        /\ pull'.ready = Tail(pull.ready)
                        /\ pull'.waiting = pull.waiting
                        /\ pull'.timers \subseteq pull.timers]_vars
    /\ [][(pull.stored = ABSENT /\ pull'.stored # ABSENT) => resp'.op = "post"]_vars
    /\ ((resp.op = "delete" /\ resp.code = "202") ~> pull.stored = ABSENT)

\* The step is a call of process_agent for an agent the tenant has stopped
Stopped == resp'.op = "process_agent" /\ pull.stored = "TENANT_FAILED"

\* C39: a call of process_agent that finds the stored state TENANT_FAILED
\* cancels the pending timer of the agent, sends no request, sets no timer and
\* queues no call, and leaves the stored state TENANT_FAILED instead of
\* writing the state of the agent in flight over it.
C39_StoppedStaysStopped ==
    [][Stopped => /\ pull'.stored = "TENANT_FAILED"
                  /\ pull'.timers \subseteq pull.timers
                  /\ \A t \in pull'.timers : t.id # pull.agent.pending_event
                  /\ pull'.waiting = pull.waiting
                  /\ pull'.ready = Tail(pull.ready)]_vars

\* C39 happens: the tenant stopped an agent that was verified and polled, a
\* call of process_agent for the next quote has found it stopped, and nothing
\* is scheduled
C39_Witness ==
    /\ resp.op = "process_agent" /\ resp.code = "GET_QUOTE"
    /\ pull.stored = "TENANT_FAILED"
    /\ pull.agent.operational_state = "GET_QUOTE" /\ pull.agent.first_verified
    /\ pull.ready = <<>> /\ pull.waiting = <<>> /\ pull.timers = {}

\* The step is the answer of a POST
Posted == resp'.op = "post"

\* What a POST does with a stored id, and with a new one
PostRule ==
    IF pull.stored # ABSENT
    THEN resp'.code = "409" /\ pull' = pull
    ELSE /\ resp'.code = "200"
         /\ pull'.stored = "START" /\ pull'.agent.operational_state = "START"
         /\ pull'.ready = Append(pull.ready, "GET_QUOTE")
         /\ pull'.waiting = pull.waiting /\ pull'.timers = pull.timers

====
